---- MODULE Spec2Model ----
(***************************************************************************)
(* Kafka request/response layer of the chat service.                       *)
(*                                                                         *)
(*   src/chat/kafka_service.py  KafkaService (producer, consumers, loops)  *)
(*   src/chat/event_handlers.py ChatEventHandler (the ten handlers)        *)
(*   src/chat/kafka_models.py   KafkaEvent, KafkaResponse, payload models  *)
(*   src/chat/kafka_app.py      KafkaManager (topic -> handler bindings)   *)
(*                                                                         *)
(* One asyncio event loop hosts one _consume_messages task per topic.  A   *)
(* task runs until it awaits; every action below is one such segment.      *)
(* Blocking ORM calls go through asgiref's sync_to_async with its default  *)
(* arguments (thread_sensitive=True): outside an async_to_sync context     *)
(* they all run on one shared single-thread executor, in submission order. *)
(***************************************************************************)
EXTENDS Integers, Sequences, FiniteSets, TLC

\* ------------------------------------------------------------------ bounds

\* Requests queued on one topic in the scenarios explored.
MaxMsgs == 2

\* Topics whose connection to the broker may fail, in the start-up and
\* shutdown scenarios.
MaxUnstable == 1

\* Calls of KafkaManager.stop() / KafkaService.stop() in those scenarios.
MaxStops == 2

\* Calls of send_response / send_audit_event made outside the consumer loops.
MaxDirectSends == 1

\* Create-conversation requests of the HTTP API in the id-assignment scenarios.
MaxCreates == 3

\* Background threads the entry points can start in the start-up scenarios.
MaxThreads == 3

\* start_producer: max_retries; start_consumer: max_retries.
producer_max_retries == 10
consumer_max_retries == 5

\* ------------------------------------------------------------- vocabulary

Absent == "ABSENT"      \* a key that is not in a mapping
None == "None"          \* Python's None

Users == {"alice", "bob"}
Orgs == {"o1", "o2"}

ResponsesTopic == "chat-service-responses"
EventsTopic == "chat-service-events"

\* EventType: the request operations ...
RequestOps ==
  { "chat_send_message", "chat_get_conversations", "chat_create_conversation",
    "chat_delete_conversation", "chat_get_messages", "chat_stream_message",
    "chat_upload_document", "chat_delete_document", "chat_get_prompts",
    "chat_create_prompt", "chat_delete_prompt", "chat_generate_title" }

\* ... and their response tags.
ResponseOps ==
  { "chat_send_message_response", "chat_get_conversations_response",
    "chat_create_conversation_response", "chat_delete_conversation_response",
    "chat_get_messages_response", "chat_stream_message_response",
    "chat_upload_document_response", "chat_delete_document_response",
    "chat_get_prompts_response", "chat_create_prompt_response",
    "chat_delete_prompt_response", "chat_generate_title_response" }

EventType == RequestOps \cup ResponseOps

\* consumers_config: topic -> the handler bound to it.  For each handler:
\*   op        the request operation the topic is meant to carry
\*   tag       the EventType the handler passes to send_response
\*   model     whether event.payload is validated by a pydantic payload model
\*   required  the model's required fields (Field(...))
\*   store     the blocking call wrapped in sync_to_async ("none": no call)
\*   audit     the audit event the handler sends after its success response
consumers_config ==
  [ t \in { "chat-service-send-message", "chat-service-get-conversations",
            "chat-service-create-conversation", "chat-service-delete-conversation",
            "chat-service-get-messages", "chat-service-get-prompts",
            "chat-service-create-prompt", "chat-service-delete-prompt",
            "chat-service-upload-document", "chat-service-generate-title" } |->
    CASE t = "chat-service-send-message" ->
           [ op |-> "chat_send_message", tag |-> "chat_send_message_response",
             model |-> TRUE, required |-> {"message", "user_context"},
             store |-> "none", audit |-> "message_sent" ]
      [] t = "chat-service-get-conversations" ->
           [ op |-> "chat_get_conversations", tag |-> "chat_get_conversations_response",
             model |-> TRUE, required |-> {"user_context"},
             store |-> "get_conversations", audit |-> "none" ]
      [] t = "chat-service-create-conversation" ->
           [ op |-> "chat_create_conversation", tag |-> "chat_create_conversation_response",
             model |-> TRUE, required |-> {"user_context"},
             store |-> "create_conversation", audit |-> "conversation_created" ]
      [] t = "chat-service-delete-conversation" ->
           [ op |-> "chat_delete_conversation", tag |-> "chat_delete_conversation_response",
             model |-> TRUE, required |-> {"conversation_id", "user_context"},
             store |-> "delete_conversation", audit |-> "none" ]
      [] t = "chat-service-get-messages" ->
           [ op |-> "chat_get_messages", tag |-> "chat_get_messages_response",
             model |-> TRUE, required |-> {"conversation_id", "user_context"},
             store |-> "get_messages", audit |-> "none" ]
      [] t = "chat-service-get-prompts" ->
           [ op |-> "chat_get_prompts", tag |-> "chat_get_prompts_response",
             model |-> FALSE, required |-> {},
             store |-> "get_prompts", audit |-> "none" ]
      [] t = "chat-service-create-prompt" ->
           [ op |-> "chat_create_prompt", tag |-> "chat_create_prompt_response",
             model |-> TRUE, required |-> {"prompt", "user_context"},
             store |-> "create_prompt", audit |-> "none" ]
      [] t = "chat-service-delete-prompt" ->
           [ op |-> "chat_delete_prompt", tag |-> "chat_delete_prompt_response",
             model |-> FALSE, required |-> {},
             store |-> "delete_prompt", audit |-> "none" ]
      [] t = "chat-service-upload-document" ->
           [ op |-> "chat_upload_document", tag |-> "chat_upload_document_response",
             model |-> TRUE, required |-> {"title", "file", "user_context"},
             store |-> "create_document", audit |-> "none" ]
      [] OTHER ->
           [ op |-> "chat_generate_title", tag |-> "chat_generate_title_response",
             model |-> TRUE, required |-> {"conversation_id", "user_context"},
             store |-> "generate_title", audit |-> "none" ] ]

Topics == DOMAIN consumers_config

\* The order start_kafka_service registers the topics in.
TopicOrder ==
  << "chat-service-send-message", "chat-service-get-conversations",
     "chat-service-create-conversation", "chat-service-delete-conversation",
     "chat-service-get-messages", "chat-service-get-prompts",
     "chat-service-create-prompt", "chat-service-delete-prompt",
     "chat-service-upload-document", "chat-service-generate-title" >>


\* ----------------------------------------------------- wire format, models

\* A deserializer that swallows its own errors and hands the bytes on.
DecodableLenient(raw) == TRUE

\* value_deserializer: json.loads(m.decode('utf-8-sig')).  A message's bytes
\* are a sequence of tokens: a byte-order mark, a well-formed JSON text, junk.
\* utf-8-sig strips one leading BOM; json.loads accepts exactly a JSON text.
StripBOM(bytes) ==
  IF Len(bytes) > 0 /\ Head(bytes) = "BOM" THEN Tail(bytes) ELSE bytes

Decodable(raw) == StripBOM(raw.bytes) = <<"JSON">>

\* A KafkaEvent whose operation may be any string.
KafkaEventValidAnyOperation(e) ==
  /\ e.is_dict
  /\ e.message_id # Absent
  /\ e.request_id # Absent
  /\ e.operation # Absent
  /\ e.timestamp # Absent
  /\ e.payload.is_dict

\* KafkaEvent(**event_data): event_data must be a mapping holding the five
\* required fields, operation a member of EventType, payload a mapping.
KafkaEventValid(e) ==
  /\ e.is_dict
  /\ e.message_id # Absent
  /\ e.request_id # Absent
  /\ e.operation \in EventType
  /\ e.timestamp # Absent
  /\ e.payload.is_dict

\* UserContext: email is its only required field.
UserContextValid(p) == p.user_context # Absent /\ p.email # Absent

\* Chat<Operation>Payload(**event.payload) of the handler bound to topic t;
\* get-prompts and delete-prompt read event.payload with .get() and validate
\* nothing.
PayloadValid(t, p) ==
  consumers_config[t].model =>
    /\ \A f \in consumers_config[t].required : p[f] # Absent
    /\ UserContextValid(p)

\* user_id as the handler computes it: payload.user_context.email, or for
\* the two .get() handlers event.payload.get('user_context', {}).get('email').
UserId(p) == IF p.user_context = Absent \/ p.email = Absent THEN None ELSE p.email

\* org_id: payload.user_context.active_org_id (None when not given).
OrgId(p) == IF p.user_context = Absent THEN None ELSE p.active_org_id

\* KafkaResponse as send_response builds it.  payload and error default to
\* None.  msg_key is the routing key send_message derives from request_id
\* (key.encode() if key else None).
NoPayload == [ set |-> FALSE, id |-> None, items |-> {} ]

\* A send_response that keys the message by its operation tag.
KafkaResponseKeyedByOperation(request_id, operation, status, payload, error) ==
  [ topic |-> ResponsesTopic,
    msg_key |-> operation,
    request_id |-> request_id,
    operation |-> operation,
    status |-> status,
    payload |-> payload,
    error |-> error,
    event_type |-> None,
    user_id |-> None ]

KafkaResponse(request_id, operation, status, payload, error) ==
  [ topic |-> ResponsesTopic,
    msg_key |-> IF request_id # "" THEN request_id ELSE None,
    request_id |-> request_id,
    operation |-> operation,
    status |-> status,
    payload |-> payload,
    error |-> error,
    event_type |-> None,
    user_id |-> None ]

\* AuditEvent as send_audit_event builds it, keyed by data.user_id.
AuditEvent(event_type, user_id) ==
  [ topic |-> EventsTopic,
    msg_key |-> user_id,
    request_id |-> None,
    operation |-> event_type,
    status |-> "success",
    payload |-> NoPayload,
    error |-> None,
    event_type |-> event_type,
    user_id |-> user_id ]

\* An except block pasted from handle_send_message without changing its tag.
ErrorResponseWrongTag(t, request_id, e) ==
  KafkaResponse(request_id, "chat_send_message_response", "error", NoPayload,
                "Internal error: " \o e)

\* An except block that passes a payload along with the error.
ErrorResponseWithPayload(t, request_id, e) ==
  KafkaResponse(request_id, consumers_config[t].tag, "error",
                [ set |-> TRUE, id |-> None, items |-> {} ], "Internal error: " \o e)

\* The except block of every handler:
\*   send_response(request_id, <tag>, EventStatus.ERROR, error=f"Internal error: {e}")
ErrorResponse(t, request_id, e) ==
  KafkaResponse(request_id, consumers_config[t].tag, "error", NoPayload,
                "Internal error: " \o e)

\* The success branch of every handler:
\*   send_response(event.request_id, <tag>, EventStatus.SUCCESS, payload=...)
SuccessResponse(t, request_id, result) ==
  KafkaResponse(request_id, consumers_config[t].tag, "success",
                [ set |-> TRUE, id |-> result.id, items |-> result.items ], None)


\* ------------------------------------------------------------ Domain Store

\* What a store call hands back to its handler.
NoResult == [ ok |-> TRUE, id |-> None, items |-> {} ]

\* queryset = Conversation.objects.filter(user_sub=user_id);
\* if org_id: queryset = queryset.filter(org_id=org_id)
OwnedConversations(st, user_id, org_id) ==
  { c \in st.conversations :
      /\ c.user_sub = user_id
      /\ (org_id # None => c.org_id = org_id) }

\* _get_conversations_sync
GetConversationsSync(st, user_id, org_id) ==
  [ store |-> st,
    result |-> [ ok |-> TRUE, id |-> None,
                 items |-> { c.id : c \in OwnedConversations(st, user_id, org_id) } ] ]

\* A delete that reports success whether or not it found the conversation.
DeleteConversationSyncAlwaysTrue(st, conversation_id, user_id, org_id) ==
  LET found == { c \in st.conversations :
                   /\ c.id = conversation_id
                   /\ c.user_sub = user_id
                   /\ (org_id # None => c.org_id = org_id) }
  IN  [ store |-> [ st EXCEPT !.conversations = @ \ found,
                               !.messages = { m \in @ : m.conversation # conversation_id
                                                        \/ found = {} } ],
        result |-> [ ok |-> TRUE, id |-> conversation_id, items |-> {} ] ]

\* _delete_conversation_sync: conversation.delete() cascades to its messages.
DeleteConversationSync(st, conversation_id, user_id, org_id) ==
  LET found == { c \in OwnedConversations(st, user_id, org_id) : c.id = conversation_id }
  IN  [ store |-> [ st EXCEPT !.conversations = @ \ found,
                               !.messages = { m \in @ : m.conversation # conversation_id
                                                        \/ found = {} } ],
        result |-> [ ok |-> found # {}, id |-> conversation_id, items |-> {} ] ]

\* A lookup by conversation id alone, without the user_sub filter.
GetMessagesSyncAnyOwner(st, conversation_id, user_id, org_id) ==
  LET found == { c \in st.conversations : c.id = conversation_id }
  IN  [ store |-> st,
        result |-> [ ok |-> found # {}, id |-> conversation_id,
                     items |-> IF found = {} THEN {}
                               ELSE { m.id : m \in { x \in st.messages :
                                                       x.conversation = conversation_id } } ] ]

\* _get_messages_sync: None when the conversation is not the caller's.
GetMessagesSync(st, conversation_id, user_id, org_id) ==
  LET found == { c \in OwnedConversations(st, user_id, org_id) : c.id = conversation_id }
  IN  [ store |-> st,
        result |-> [ ok |-> found # {}, id |-> conversation_id,
                     items |-> IF found = {} THEN {}
                               ELSE { m.id : m \in { x \in st.messages :
                                                       x.conversation = conversation_id } } ] ]

\* _generate_title_sync: filters by id and user_sub only, then saves the topic.
GenerateTitleSync(st, conversation_id, user_id) ==
  LET found == { c \in st.conversations :
                   c.id = conversation_id /\ c.user_sub = user_id }
  IN  [ store |-> [ st EXCEPT !.conversations =
                      { IF c \in found THEN [ c EXCEPT !.topic = "Generated Title" ] ELSE c
                        : c \in @ } ],
        result |-> [ ok |-> found # {}, id |-> conversation_id, items |-> {} ] ]

\* _create_conversation_sync
CreateConversationSync(st, user_id, org_id, topic) ==
  LET id == ToString(st.next_conversation)
  IN  [ store |-> [ st EXCEPT !.conversations = @ \cup
                        { [ id |-> id, user_sub |-> user_id, org_id |-> org_id,
                            topic |-> topic ] },
                      !.next_conversation = @ + 1 ],
        result |-> [ ok |-> TRUE, id |-> id, items |-> {} ] ]

\* _create_prompt_sync
CreatePromptSync(st, user_id) ==
  LET id == ToString(st.next_prompt)
  IN  [ store |-> [ st EXCEPT !.prompts = @ \cup { [ id |-> id, user_sub |-> user_id ] },
                               !.next_prompt = @ + 1 ],
        result |-> [ ok |-> TRUE, id |-> id, items |-> {} ] ]

\* _delete_prompt_sync
DeletePromptSync(st, prompt_id, user_id) ==
  LET found == { q \in st.prompts : q.id = prompt_id /\ q.user_sub = user_id }
  IN  [ store |-> [ st EXCEPT !.prompts = @ \ found ],
        result |-> [ ok |-> found # {}, id |-> prompt_id, items |-> {} ] ]

\* handle_get_prompts: list(Prompt.objects.filter(user_sub=user_id))
GetPromptsSync(st, user_id) ==
  [ store |-> st,
    result |-> [ ok |-> TRUE, id |-> None,
                 items |-> { q.id : q \in { x \in st.prompts : x.user_sub = user_id } } ] ]

\* _create_document_sync
CreateDocumentSync(st, user_id, org_id) ==
  LET id == ToString(st.next_document)
  IN  [ store |-> [ st EXCEPT !.documents = @ \cup
                        { [ id |-> id, user_sub |-> user_id, org_id |-> org_id ] },
                      !.next_document = @ + 1 ],
        result |-> [ ok |-> TRUE, id |-> id, items |-> {} ] ]

\* The call the handler bound to topic t wraps in sync_to_async, with the
\* arguments it takes from payload p.  A missing key read with .get() is None.
StoreCall(t, st, p) ==
  LET call == consumers_config[t].store
      user_id == UserId(p)
      org_id == OrgId(p)
      Get(f) == IF p[f] = Absent THEN None ELSE p[f]
  IN  CASE call = "get_conversations" -> GetConversationsSync(st, user_id, org_id)
        [] call = "create_conversation" ->
             CreateConversationSync(st, user_id, org_id,
                                    IF p.topic = Absent THEN "New Conversation" ELSE p.topic)
        [] call = "delete_conversation" ->
             DeleteConversationSync(st, p.conversation_id, user_id, org_id)
        [] call = "get_messages" -> GetMessagesSync(st, p.conversation_id, user_id, org_id)
        [] call = "get_prompts" -> GetPromptsSync(st, user_id)
        [] call = "create_prompt" -> CreatePromptSync(st, user_id)
        [] call = "delete_prompt" -> DeletePromptSync(st, Get("prompt_id"), user_id)
        [] call = "create_document" -> CreateDocumentSync(st, user_id, org_id)
        [] call = "generate_title" -> GenerateTitleSync(st, p.conversation_id, user_id)
        [] OTHER -> [ store |-> st, result |-> NoResult ]

\* The handlers that raise ValueError("... not found or access denied") when
\* their store call comes back falsy.
RaisesNotFound(t) ==
  consumers_config[t].store \in
    { "delete_conversation", "get_messages", "delete_prompt", "generate_title" }


\* ------------------------------------------------------------------- state

VARIABLES
  running,      \* KafkaService.running
  producer,     \* KafkaService.producer: "none" (None), or a producer object
                \*   that is "created" (not connected), "started" or "stopped"
  consumers,    \* [topic -> "none" (not in KafkaService.consumers) |
                \*            "started" | "stopped"]
  manager,      \* KafkaManager: running, kafka_task, thread, loop
  service,      \* where the start_kafka_service coroutine is suspended
  unstable,     \* the topics whose connection to the broker may fail
  acked,        \* outbox positions the broker has acknowledged
  failed,       \* outbox positions whose delivery failed after send returned
  log,          \* what start-up and shutdown have logged so far
  partition,    \* [topic -> the raw messages the broker holds for it]
  position,     \* [topic -> how many of them its consumer has fetched]
  pc,           \* [topic -> where its _consume_messages task is suspended]
  pollError,    \* [topic -> the exception caught around getmany, if any]
  batch,        \* [topic -> indices of msg_pack's messages not yet handled]
  cur,          \* [topic -> locals of the handler call in progress]
  execQueue,    \* topics whose store call is on the single-thread executor
  store,        \* the Domain Store
  outbox,       \* the messages producer.send accepted, in order
  hist,         \* what has happened to each request so far
  table,        \* the Conversation rows as ConversationViewSet sees them
  creating,     \* the perform_create calls of the HTTP API, by request
  threads       \* where each thread started with target run_kafka stands

vars == << running, producer, consumers, manager, service, unstable, acked, failed,
           log, partition, position, pc, pollError, batch, cur, execQueue, store,
           outbox, hist, table, creating, threads >>

\* The state of the web process around the one service the Kafka layer is
\* followed through: the HTTP API's view set, and the run_kafka threads the
\* entry points have started.
web == << table, creating, threads >>

\* What the steps of a consumer loop and of a handler leave alone.
lifecycle == << consumers, manager, service, unstable, acked, failed, log, web >>

Idle == [ n |-> 0, request_id |-> None, err |-> None, result |-> NoResult ]

\* The store before any request: one conversation with one message for each
\* of two users in two organisations, and a prompt of alice's.
InitialStore ==
  [ conversations |->
      { [ id |-> "1", user_sub |-> "alice", org_id |-> "o1", topic |-> "T1" ],
        [ id |-> "2", user_sub |-> "bob", org_id |-> "o2", topic |-> "T2" ] },
    messages |-> { [ id |-> "m1", conversation |-> "1" ],
                   [ id |-> "m2", conversation |-> "2" ] },
    prompts |-> { [ id |-> "1", user_sub |-> "alice" ] },
    documents |-> {},
    next_conversation |-> 3,
    next_prompt |-> 2,
    next_document |-> 1 ]

\* ---------------------------------------------------------------- requests

RequestId(n) == "req-" \o ToString(n)

\* A payload carrying every field any payload model reads.
Payload(user, org) ==
  [ is_dict |-> TRUE, user_context |-> "dict", email |-> user, active_org_id |-> org,
    conversation_id |-> "1", prompt_id |-> "1", message |-> "hello",
    prompt |-> "text", title |-> "doc", file |-> "base64", topic |-> "Test" ]

\* The same payload with one key left out.
Without(p, f) ==
  IF f = "user_context"
  THEN [ p EXCEPT !.user_context = Absent, !.email = Absent, !.active_org_id = None ]
  ELSE [ p EXCEPT ![f] = Absent ]

\* The n-th request, well formed, for the operation topic t is meant to carry.
Envelope(n, t, p) ==
  [ is_dict |-> TRUE, message_id |-> "msg-" \o ToString(n), request_id |-> RequestId(n),
    operation |-> consumers_config[t].op, timestamp |-> "2024-01-01T00:00:00Z",
    payload |-> p ]

Raw(n, bytes, e) == [ n |-> n, bytes |-> bytes, value |-> e ]

\* The fields whose absence a request for topic t can be tested with.
OperationFields(t) ==
  (consumers_config[t].required \ {"user_context"})
    \cup (IF t = "chat-service-delete-prompt" THEN {"prompt_id"} ELSE {})

\* Well-formed envelopes with every payload the claims distinguish: the owner
\* with and without an organisation, another user, and one key missing.
PayloadVariants(n, t) ==
  { Raw(n, <<"JSON">>, Envelope(n, t, Payload(c[1], c[2]))) :
      c \in { <<"alice", None>>, <<"alice", "o1">>, <<"alice", "o2">>, <<"bob", None>> } }
  \cup
  { Raw(n, <<"JSON">>, Envelope(n, t, Without(Payload("alice", None), f))) :
      f \in {"user_context", "email"} \cup OperationFields(t) }

\* Bytes that do not decode, a BOM prefix, and envelopes KafkaEvent rejects
\* or that carry an unusual request_id or operation.
EnvelopeVariants(n, t) ==
  LET e == Envelope(n, t, Payload("alice", None))
  IN  { Raw(n, <<"JUNK">>, e),
        Raw(n, <<"BOM", "JSON">>, e),
        Raw(n, <<"BOM", "BOM", "JSON">>, e),
        Raw(n, <<"JSON">>, [ e EXCEPT !.is_dict = FALSE ]),
        Raw(n, <<"JSON">>, [ e EXCEPT !.message_id = Absent ]),
        Raw(n, <<"JSON">>, [ e EXCEPT !.request_id = Absent ]),
        Raw(n, <<"JSON">>, [ e EXCEPT !.request_id = "" ]),
        Raw(n, <<"JSON">>, [ e EXCEPT !.operation = Absent ]),
        Raw(n, <<"JSON">>, [ e EXCEPT !.operation = "chat_unknown" ]),
        Raw(n, <<"JSON">>, [ e EXCEPT !.operation = "chat_stream_message" ]),
        Raw(n, <<"JSON">>, [ e EXCEPT !.timestamp = Absent ]),
        Raw(n, <<"JSON">>, [ e EXCEPT !.payload.is_dict = FALSE ]) }

Variants(n, t) == PayloadVariants(n, t) \cup EnvelopeVariants(n, t)

\* The shapes the requests around the one under study take: the owner's and
\* another user's well-formed request, one without user_context, and junk.
CommonVariants(n, t) ==
  { Raw(n, <<"JSON">>, Envelope(n, t, Payload("alice", None))),
    Raw(n, <<"JSON">>, Envelope(n, t, Payload("bob", None))),
    Raw(n, <<"JSON">>, Envelope(n, t, Without(Payload("alice", None), "user_context"))),
    Raw(n, <<"JUNK">>, Envelope(n, t, Payload("alice", None))) }

\* MaxMsgs requests queued on one topic: one of any shape, at any place in
\* the queue, among requests of the common shapes.
SameTopicScenarios ==
  UNION { UNION {
    LET Q[n \in 0..MaxMsgs] ==
          IF n = 0 THEN { << >> }
          ELSE { Append(q, v) :
                   q \in Q[n - 1],
                   v \in IF n = free THEN Variants(n, topic) ELSE CommonVariants(n, topic) }
    IN  { [ t \in Topics |-> IF t = topic THEN msgs ELSE << >> ] : msgs \in Q[MaxMsgs] }
    : free \in 1..MaxMsgs } : topic \in Topics }

\* Two well-formed requests arriving on two different topics, one each.
Place(first, second) ==
  [ t \in Topics |->
      IF t = first THEN << Raw(1, <<"JSON">>, Envelope(1, t, Payload("alice", None))) >>
      ELSE IF t = second THEN << Raw(2, <<"JSON">>, Envelope(2, t, Payload("alice", None))) >>
      ELSE << >> ]

CrossTopicScenarios ==
  { Place(pair[1], pair[2]) : pair \in { q \in Topics \X Topics : q[1] # q[2] } }

\* The owner's request on one topic and another user's list-messages request
\* for the owner's conversation: the store that request meets varies with the
\* order the two are handled in.
OtherUserScenarios ==
  { [ Place(first, "chat-service-get-messages")
        EXCEPT !["chat-service-get-messages"] =
          << Raw(2, <<"JSON">>, Envelope(2, "chat-service-get-messages",
                                         Payload("bob", org))) >> ]
    : first \in Topics \ {"chat-service-get-messages"}, org \in {None, "o1"} }

\* Bookkeeping, by request number: whose handler was invoked, passed payload
\* validation, had its store call run, raised inside its try block, had the
\* send of its success response / audit event / error response raise, and
\* has returned; and for each outbox entry the request it was sent for.
NoHistory ==
  [ invoked |-> {}, payload_ok |-> {}, store_called |-> {}, raised |-> {},
    response_refused |-> {}, audit_refused |-> {}, escaped |-> {}, done |-> {},
    sent |-> << >> ]

\* No entry point has started a thread.
NoThreads == [ i \in 1..MaxThreads |-> [ pc |-> "none", index |-> 0 ] ]

\* No perform_create call has been made.
NoCreates ==
  [ i \in 1..MaxCreates |->
      [ pc |-> "idle", sub |-> None, next_conversation_id |-> 0, id |-> 0,
        before |-> {} ] ]

\* KafkaManager once run_kafka has created the loop and the task, and the
\* start_kafka_service coroutine once every consumer is registered.
ManagerRunning ==
  [ running |-> TRUE, kafka_task |-> "pending", thread |-> "alive", loop |-> "running" ]

Supervising == [ pc |-> "supervising", index |-> 0, attempt |-> 0, cancel |-> FALSE ]

\* What the service has logged about its start-up and shutdown: producer
\* connection attempts and the sleeps between them, the topics whose
\* subscription was given up, the topics that saw an empty poll, the stop
\* calls, and the publish calls made outside the consumer loops.
NoLog ==
  [ producer_attempts |-> 0, producer_sleeps |-> 0, exhausted |-> {},
    timed_out |-> {}, stops |-> 0, direct |-> 0, direct_raised |-> FALSE ]

Init ==
  /\ running = TRUE
  /\ producer = "started"
  /\ consumers = [ t \in Topics |-> "started" ]
  /\ manager = ManagerRunning
  /\ service = Supervising
  /\ unstable = {}
  /\ acked = {}
  /\ failed = {}
  /\ log = [ NoLog EXCEPT !.producer_attempts = 1 ]
  /\ partition \in SameTopicScenarios \cup CrossTopicScenarios \cup OtherUserScenarios
  /\ position = [ t \in Topics |-> 0 ]
  /\ pc = [ t \in Topics |-> "polling" ]
  /\ pollError = [ t \in Topics |-> None ]
  /\ batch = [ t \in Topics |-> << >> ]
  /\ cur = [ t \in Topics |-> Idle ]
  /\ execQueue = << >>
  /\ store = InitialStore
  /\ outbox = << >>
  /\ hist = NoHistory
  /\ table = {}
  /\ creating = NoCreates
  /\ threads = NoThreads


\* ------------------------------------------------------- response publisher

\* A send_message without the "if not self.producer" guard: None has no send.
send_message_unguarded(ob, message, accepted) ==
  IF accepted /\ producer = "started"
  THEN [ outbox |-> Append(ob, message), raised |-> FALSE ]
  ELSE [ outbox |-> ob, raised |-> TRUE ]

\* KafkaService.send_message.  accepted: whether producer.send takes the
\* message or raises KafkaError.  Without a producer the call logs a warning
\* and returns.
send_message(ob, message, accepted) ==
  IF producer = "none" THEN [ outbox |-> ob, raised |-> FALSE ]
  ELSE IF accepted /\ producer = "started"
  THEN [ outbox |-> Append(ob, message), raised |-> FALSE ]
  ELSE [ outbox |-> ob, raised |-> TRUE ]

\* ------------------------------------------------------------ consumer loop

\* The event loop of the Kafka thread is running its tasks.  Every step of a
\* consumer loop or of a handler is a step of one of them.
LoopRunning == manager.loop = "running"

Mark(h, what, n) == [ h EXCEPT ![what] = @ \cup {n} ]

\* r: what send_message returned for a message of request n.
Sent(h, r, n) == IF r.outbox # outbox THEN [ h EXCEPT !.sent = Append(@, n) ] ELSE h

\* A for loop that takes the messages of msg_pack from the end.
MessageFromEnd(t) == partition[t][batch[t][Len(batch[t])]]

\* The message a handler call is working on.
Message(t) == partition[t][Head(batch[t])]

\* handler(message.value) has returned, or raised into the loop's except
\* clause: the for loop takes the next message, and after the last one the
\* while loop polls again.
Return(t) ==
  /\ batch' = [ batch EXCEPT ![t] = Tail(@) ]
  /\ pc' = [ pc EXCEPT ![t] = IF Len(batch[t]) > 1 THEN "dispatching"
                               ELSE IF running THEN "polling" ELSE "ended" ]
  /\ cur' = [ cur EXCEPT ![t] = Idle ]

\* The handler's try block raised e: control is in its except block.
Except(t, e) ==
  /\ pc' = [ pc EXCEPT ![t] = "send_error" ]
  /\ cur' = [ cur EXCEPT ![t].err = e ]
  /\ UNCHANGED batch

\* msg_pack = await consumer.getmany(timeout_ms=1000): up to everything the
\* broker holds past the consumer's position, deserialized on the way out.
\* A record that does not deserialize makes getmany raise: no msg_pack is
\* bound, and the except clause around the poll sleeps.  Where the consumer
\* resumes within the failed fetch is the client library's choice.  An empty
\* msg_pack (timeout) changes nothing: the loop polls again, a stuttering step.
Poll(t) ==
  /\ LoopRunning
  /\ consumers[t] = "started"
  /\ pc[t] = "polling"
  /\ \E k \in 1..(Len(partition[t]) - position[t]) :
       LET fetched == (position[t] + 1)..(position[t] + k)
       IN  IF \A i \in fetched : Decodable(partition[t][i])
           THEN /\ position' = [ position EXCEPT ![t] = @ + k ]
                /\ batch' = [ batch EXCEPT ![t] = [ j \in 1..k |-> position[t] + j ] ]
                /\ pc' = [ pc EXCEPT ![t] = "dispatching" ]
                /\ UNCHANGED pollError
           ELSE /\ \E resume \in position[t]..(position[t] + k) :
                     position' = [ position EXCEPT ![t] = resume ]
                /\ pc' = [ pc EXCEPT ![t] = "cooldown" ]
                /\ pollError' = [ pollError EXCEPT ![t] = "decode" ]
                /\ UNCHANGED batch
  /\ UNCHANGED << running, producer, partition, cur, execQueue, store, outbox, hist >>
  /\ UNCHANGED lifecycle

\* A loop that gives up after the exception instead of polling again.
CooldownThenExit(t) ==
  /\ LoopRunning
  /\ pc[t] = "cooldown"
  /\ pc' = [ pc EXCEPT ![t] = "ended" ]
  /\ pollError' = [ pollError EXCEPT ![t] = None ]
  /\ UNCHANGED << running, producer, partition, position, batch, cur, execQueue,
                  store, outbox, hist >>
  /\ UNCHANGED lifecycle

\* await asyncio.sleep(5) in the except clause around the poll is over.
Cooldown(t) ==
  /\ LoopRunning
  /\ pc[t] = "cooldown"
  /\ pc' = [ pc EXCEPT ![t] = IF running THEN "polling" ELSE "ended" ]
  /\ pollError' = [ pollError EXCEPT ![t] = None ]
  /\ UNCHANGED << running, producer, partition, position, batch, cur, execQueue,
                  store, outbox, hist >>
  /\ UNCHANGED lifecycle

\* ---------------------------------------------------------------- handlers

\* await handler(message.value), up to the handler's first await:
\*   request_id = None
\*   event = KafkaEvent(**event_data); request_id = event.request_id
\*   payload = Chat...Payload(**event.payload)
\*   ... await sync_to_async(...)(...)        (every handler but send-message)
\* A KafkaEvent error leaves request_id None: the except block sends nothing
\* and the handler returns.
Dispatch(t) ==
  /\ LoopRunning
  /\ pc[t] = "dispatching"
  /\ LET m == Message(t)
         e == m.value
         h == Mark(hist, "invoked", m.n)
     IN  IF ~KafkaEventValid(e)
         THEN /\ Return(t)
              /\ hist' = Mark(Mark(h, "raised", m.n), "done", m.n)
              /\ UNCHANGED execQueue
         ELSE IF ~PayloadValid(t, e.payload)
         THEN /\ pc' = [ pc EXCEPT ![t] = "send_error" ]
              /\ cur' = [ cur EXCEPT ![t] = [ Idle EXCEPT !.n = m.n,
                                                          !.request_id = e.request_id,
                                                          !.err = "validation error" ] ]
              /\ hist' = Mark(h, "raised", m.n)
              /\ UNCHANGED << batch, execQueue >>
         ELSE /\ cur' = [ cur EXCEPT ![t] = [ Idle EXCEPT !.n = m.n,
                                                          !.request_id = e.request_id ] ]
              /\ hist' = Mark(h, "payload_ok", m.n)
              /\ IF consumers_config[t].store = "none"
                 THEN /\ pc' = [ pc EXCEPT ![t] = "send_success" ]
                      /\ UNCHANGED execQueue
                 ELSE /\ pc' = [ pc EXCEPT ![t] = "await_store" ]
                      /\ execQueue' = Append(execQueue, t)
              /\ UNCHANGED batch
  /\ UNCHANGED << running, producer, partition, position, pollError, store, outbox >>
  /\ UNCHANGED lifecycle

\* The executor thread runs the store call at the head of its queue and the
\* awaiting handler resumes with the outcome: a result, a falsy result the
\* handler turns into ValueError, or an exception of the store's own.
StoreReturn(t) ==
  /\ LoopRunning
  /\ pc[t] = "await_store"
  /\ execQueue # << >>
  /\ Head(execQueue) = t
  /\ execQueue' = Tail(execQueue)
  /\ \E db_error \in BOOLEAN :
       LET r == StoreCall(t, store, Message(t).value.payload)
           h == Mark(hist, "store_called", cur[t].n)
       IN  IF db_error
           THEN /\ Except(t, "database error")
                /\ hist' = Mark(h, "raised", cur[t].n)
                /\ UNCHANGED store
           ELSE /\ store' = r.store
                /\ IF RaisesNotFound(t) /\ ~r.result.ok
                   THEN /\ Except(t, "not found or access denied")
                        /\ hist' = Mark(h, "raised", cur[t].n)
                   ELSE /\ pc' = [ pc EXCEPT ![t] = "send_success" ]
                        /\ cur' = [ cur EXCEPT ![t].result = r.result ]
                        /\ hist' = h
                        /\ UNCHANGED batch
  /\ UNCHANGED << running, producer, partition, position, pollError, outbox >>
  /\ UNCHANGED lifecycle

\* await kafka_service.send_response(..., status=EventStatus.SUCCESS, payload=...)
\* and, with no audit event to send, the end of the try block.
SendSuccess(t) ==
  /\ LoopRunning
  /\ pc[t] = "send_success"
  /\ \E accepted \in BOOLEAN :
       LET r == send_message(outbox, SuccessResponse(t, cur[t].request_id, cur[t].result),
                             accepted)
       IN  /\ outbox' = r.outbox
           /\ IF r.raised
              THEN /\ Except(t, "KafkaError")
                   /\ hist' = Mark(Mark(hist, "raised", cur[t].n), "response_refused", cur[t].n)
              ELSE IF consumers_config[t].audit # "none"
              THEN /\ pc' = [ pc EXCEPT ![t] = "send_audit" ]
                   /\ hist' = Sent(hist, r, cur[t].n)
                   /\ UNCHANGED << batch, cur >>
              ELSE /\ Return(t)
                   /\ hist' = Mark(Sent(hist, r, cur[t].n), "done", cur[t].n)
  /\ UNCHANGED << running, producer, partition, position, pollError, execQueue, store >>
  /\ UNCHANGED lifecycle

\* await send_message_sent_event(...) / send_conversation_created_event(...):
\* still inside the try block, after the success response.
SendAudit(t) ==
  /\ LoopRunning
  /\ pc[t] = "send_audit"
  /\ \E accepted \in BOOLEAN :
       LET p == Message(t).value.payload
           r == send_message(outbox, AuditEvent(consumers_config[t].audit, UserId(p)),
                             accepted)
       IN  /\ outbox' = r.outbox
           /\ IF r.raised
              THEN /\ Except(t, "KafkaError")
                   /\ hist' = Mark(Mark(hist, "raised", cur[t].n), "audit_refused", cur[t].n)
              ELSE /\ Return(t)
                   /\ hist' = Mark(Sent(hist, r, cur[t].n), "done", cur[t].n)
  /\ UNCHANGED << running, producer, partition, position, pollError, execQueue, store >>
  /\ UNCHANGED lifecycle

\* A consumer loop without the try/except around handler(message.value): the
\* exception of the except block's own send ends the loop's task.
SendErrorUnguardedLoop(t) ==
  /\ LoopRunning
  /\ pc[t] = "send_error"
  /\ \E accepted \in BOOLEAN :
       LET r == IF cur[t].request_id # ""
                THEN send_message(outbox, ErrorResponse(t, cur[t].request_id, cur[t].err),
                                  accepted)
                ELSE [ outbox |-> outbox, raised |-> FALSE ]
       IN  /\ outbox' = r.outbox
           /\ hist' = IF r.raised
                      THEN Mark(Mark(hist, "escaped", cur[t].n), "done", cur[t].n)
                      ELSE Mark(Sent(hist, r, cur[t].n), "done", cur[t].n)
           /\ IF r.raised
              THEN /\ pc' = [ pc EXCEPT ![t] = "ended" ]
                   /\ cur' = [ cur EXCEPT ![t] = Idle ]
                   /\ UNCHANGED batch
              ELSE Return(t)
  /\ UNCHANGED << running, producer, partition, position, pollError, execQueue, store >>
  /\ UNCHANGED lifecycle

\* except Exception as e:
\*     if request_id:
\*         await kafka_service.send_response(..., status=EventStatus.ERROR, error=...)
\* An exception of this send leaves the handler and is logged by the loop.
SendError(t) ==
  /\ LoopRunning
  /\ pc[t] = "send_error"
  /\ \E accepted \in BOOLEAN :
       LET r == IF cur[t].request_id # ""
                THEN send_message(outbox, ErrorResponse(t, cur[t].request_id, cur[t].err),
                                  accepted)
                ELSE [ outbox |-> outbox, raised |-> FALSE ]
       IN  /\ outbox' = r.outbox
           /\ hist' = IF r.raised
                      THEN Mark(Mark(hist, "escaped", cur[t].n), "done", cur[t].n)
                      ELSE Mark(Sent(hist, r, cur[t].n), "done", cur[t].n)
  /\ Return(t)
  /\ UNCHANGED << running, producer, partition, position, pollError, execQueue, store >>
  /\ UNCHANGED lifecycle

Next ==
  \E t \in Topics :
    \/ Poll(t)
    \/ Cooldown(t)
    \/ Dispatch(t)
    \/ StoreReturn(t)
    \/ SendSuccess(t)
    \/ SendAudit(t)
    \/ SendError(t)

Spec == Init /\ [][Next]_vars


\* ------------------------------------------------------ start-up, shutdown

\* KafkaManager() and KafkaService() as constructed at import.
NotStarted ==
  [ running |-> FALSE, kafka_task |-> "none", thread |-> "none", loop |-> "none" ]

NoCoroutine == [ pc |-> "none", index |-> 0, attempt |-> 0, cancel |-> FALSE ]

\* What the traffic is in the start-up and shutdown scenarios: one request
\* of the owner, on the first, on a middle or on the last topic registered.
LifecycleScenarios ==
  { [ t \in Topics |->
        IF t = topic THEN << Raw(1, <<"JSON">>, Envelope(1, t, Payload("alice", None))) >>
        ELSE << >> ]
    : topic \in { "chat-service-send-message", "chat-service-create-conversation",
                  "chat-service-generate-title" } }

\* The topics that carry the traffic of those scenarios.
LifecycleTopics == { t \in Topics : \E sc \in LifecycleScenarios : sc[t] # << >> }

\* The service as constructed at import, before start_in_thread.
StartupInit ==
  /\ running = FALSE
  /\ producer = "none"
  /\ consumers = [ t \in Topics |-> "none" ]
  /\ manager = NotStarted
  /\ service = NoCoroutine
  /\ unstable \in { u \in SUBSET LifecycleTopics : Cardinality(u) <= MaxUnstable }
  /\ acked = {}
  /\ failed = {}
  /\ log = NoLog
  /\ partition \in LifecycleScenarios
  /\ position = [ t \in Topics |-> 0 ]
  /\ pc = [ t \in Topics |-> "unregistered" ]
  /\ pollError = [ t \in Topics |-> None ]
  /\ batch = [ t \in Topics |-> << >> ]
  /\ cur = [ t \in Topics |-> Idle ]
  /\ execQueue = << >>
  /\ store = InitialStore
  /\ outbox = << >>
  /\ hist = NoHistory
  /\ table = {}
  /\ creating = NoCreates
  /\ threads = NoThreads

\* The topics whose consumer loop is followed to its end: those with traffic
\* and those with an unstable connection.  The loops of the other topics run
\* the same code on empty polls.
Observed == unstable \cup { t \in Topics : partition[t] # << >> }

\* What the loop and the handlers leave alone in a start-up or shutdown step.
traffic ==
  << partition, position, pollError, batch, cur, execQueue, store, outbox, hist, web >>

\* KafkaService.stop() from the entry after position i of self.consumers up
\* to its next await.  consumer.stop() and producer.stop() mark their object
\* closed before they first await.
stop(i, cons, prod) ==
  LET rest == { k \in (i + 1)..Len(TopicOrder) : cons[TopicOrder[k]] # "none" }
  IN  IF rest # {}
      THEN LET k == CHOOSE x \in rest : \A y \in rest : x <= y
           IN  [ consumers |-> [ cons EXCEPT ![TopicOrder[k]] = "stopped" ],
                 producer |-> prod, pc |-> "stop_consumer", index |-> k ]
      ELSE IF prod # "none"
      THEN [ consumers |-> cons, producer |-> "stopped", pc |-> "stop_producer",
             index |-> i ]
      ELSE [ consumers |-> cons, producer |-> prod, pc |-> "finished", index |-> i ]

\* finally: await kafka_service.stop() - self.running = False, then the
\* consumers in registration order, then the producer.
Finally(cons, prod) ==
  LET r == stop(0, cons, prod)
  IN  /\ running' = FALSE
      /\ consumers' = r.consumers
      /\ producer' = r.producer
      /\ service' = [ pc |-> r.pc, index |-> r.index, attempt |-> 0, cancel |-> FALSE ]

\* start_in_thread: threading.Thread(target=run_kafka, daemon=True).start()
start_in_thread ==
  /\ manager.thread = "none"
  /\ manager' = [ manager EXCEPT !.thread = "alive" ]
  /\ UNCHANGED << running, producer, consumers, service, unstable, acked, failed, log,
                  pc, traffic >>

\* run_kafka: self.loop = asyncio.new_event_loop(); self.running = True
run_kafka ==
  /\ manager.thread = "alive"
  /\ manager.loop = "none"
  /\ manager' = [ manager EXCEPT !.loop = "created", !.running = TRUE ]
  /\ UNCHANGED << running, producer, consumers, service, unstable, acked, failed, log,
                  pc, traffic >>

\* self.kafka_task = self.loop.create_task(...); run_until_complete: the
\* coroutine runs kafka_service.start() - self.running = True - into
\* start_producer, where it awaits the first self.producer.start().
start_kafka_service ==
  /\ manager.loop = "created"
  /\ manager' = [ manager EXCEPT !.loop = "running", !.kafka_task = "pending" ]
  /\ running' = TRUE
  /\ producer' = "created"
  /\ service' = [ pc |-> "producer_start", index |-> 0, attempt |-> 0, cancel |-> FALSE ]
  /\ log' = [ log EXCEPT !.producer_attempts = @ + 1 ]
  /\ UNCHANGED << consumers, unstable, acked, failed, pc, traffic >>

\* A registration loop without its try/except: the exception of a topic
\* that was given up leaves the loop for the finally clause.
RegisterAbortsOnFailure(i, cons, started) ==
  IF started = {}
  THEN /\ Finally(cons, producer)
       /\ UNCHANGED pc
  ELSE IF i < Len(TopicOrder)
  THEN /\ service' = [ service EXCEPT !.pc = "consumer_start", !.index = i + 1,
                                       !.attempt = 0 ]
       /\ consumers' = cons
       /\ pc' = [ t \in Topics |-> IF t \in started THEN "polling" ELSE pc[t] ]
       /\ UNCHANGED << running, producer >>
  ELSE /\ service' = [ service EXCEPT !.pc = "supervising", !.index = 0, !.attempt = 0 ]
       /\ consumers' = cons
       /\ pc' = [ t \in Topics |-> IF t \in started THEN "polling" ELSE pc[t] ]
       /\ UNCHANGED << running, producer >>

\* The coroutine goes on from the registration of the topic at position i:
\* to the next topic's consumer.start(), or past the last topic to
\* "while self.running: await asyncio.sleep(1)" - and when KafkaManager.running
\* is already False, into the finally clause.  started: the topic whose loop
\* task this segment created; the task first runs when the coroutine awaits.
Register(i, cons, started) ==
  IF i < Len(TopicOrder)
  THEN /\ service' = [ service EXCEPT !.pc = "consumer_start", !.index = i + 1,
                                       !.attempt = 0 ]
       /\ consumers' = cons
       /\ pc' = [ t \in Topics |-> IF t \in started THEN "polling" ELSE pc[t] ]
       /\ UNCHANGED << running, producer >>
  ELSE IF manager.running
  THEN /\ service' = [ service EXCEPT !.pc = "supervising", !.index = 0, !.attempt = 0 ]
       /\ consumers' = cons
       /\ pc' = [ t \in Topics |-> IF t \in started THEN "polling" ELSE pc[t] ]
       /\ UNCHANGED << running, producer >>
  ELSE /\ Finally(cons, producer)
       /\ pc' = [ t \in Topics |-> IF t \in started THEN "ended" ELSE pc[t] ]

\* start_producer: await self.producer.start() returns, or raises: sleep and
\* retry, or after the last attempt re-raise into start_kafka_service, whose
\* except clause logs and whose finally clause stops the service.
StartProducer ==
  /\ LoopRunning
  /\ service.pc = "producer_start"
  /\ ~service.cancel
  /\ \E connected \in BOOLEAN :
       IF connected
       THEN /\ producer' = "started"
            /\ service' = [ service EXCEPT !.pc = "consumer_start", !.index = 1,
                                            !.attempt = 0 ]
            /\ UNCHANGED << running, consumers, log >>
       ELSE IF service.attempt < producer_max_retries - 1
       THEN /\ service' = [ service EXCEPT !.pc = "producer_sleep" ]
            /\ log' = [ log EXCEPT !.producer_sleeps = @ + 1 ]
            /\ UNCHANGED << running, producer, consumers >>
       ELSE /\ Finally(consumers, producer)
            /\ UNCHANGED log
  /\ UNCHANGED << manager, unstable, acked, failed, pc, traffic >>

\* await asyncio.sleep(retry_delay) is over: the next attempt builds a new
\* AIOKafkaProducer and awaits its start().
ProducerRetry ==
  /\ LoopRunning
  /\ service.pc = "producer_sleep"
  /\ ~service.cancel
  /\ service' = [ service EXCEPT !.pc = "producer_start", !.attempt = @ + 1 ]
  /\ producer' = "created"
  /\ log' = [ log EXCEPT !.producer_attempts = @ + 1 ]
  /\ UNCHANGED << running, consumers, manager, unstable, acked, failed, pc, traffic >>

\* start_consumer: await consumer.start() returns - the consumer is stored
\* and its _consume_messages task created - or raises: sleep and retry, or
\* after the last attempt re-raise into the registration loop, which logs
\* and takes the next topic.
StartConsumer ==
  /\ LoopRunning
  /\ service.pc = "consumer_start"
  /\ ~service.cancel
  /\ LET t == TopicOrder[service.index]
     IN  \E subscribed \in (IF t \in unstable THEN BOOLEAN ELSE {TRUE}) :
           IF subscribed
           THEN /\ Register(service.index, [ consumers EXCEPT ![t] = "started" ], {t})
                /\ UNCHANGED log
           ELSE IF service.attempt < consumer_max_retries - 1
           THEN /\ service' = [ service EXCEPT !.pc = "consumer_sleep" ]
                /\ UNCHANGED << running, producer, consumers, pc, log >>
           ELSE /\ Register(service.index, consumers, {})
                /\ log' = [ log EXCEPT !.exhausted = @ \cup {t} ]
  /\ UNCHANGED << manager, unstable, acked, failed, traffic >>

\* await asyncio.sleep(retry_delay) in start_consumer is over.
ConsumerRetry ==
  /\ LoopRunning
  /\ service.pc = "consumer_sleep"
  /\ ~service.cancel
  /\ service' = [ service EXCEPT !.pc = "consumer_start", !.attempt = @ + 1 ]
  /\ UNCHANGED << running, producer, consumers, manager, unstable, acked, failed, log,
                  pc, traffic >>

\* kafka_task.cancel() takes effect: CancelledError is raised at the await
\* the coroutine is suspended in.  It is not an Exception: no except clause
\* of the service catches it.  Outside stop() it reaches the finally clause
\* of start_kafka_service; inside stop() it ends stop() where it stands.
Cancelled ==
  /\ LoopRunning
  /\ service.cancel
  /\ service.pc \notin { "none", "finished" }
  /\ IF service.pc \in { "stop_consumer", "stop_producer" }
     THEN /\ service' = [ service EXCEPT !.pc = "finished", !.cancel = FALSE ]
          /\ UNCHANGED << running, producer, consumers >>
     ELSE Finally(consumers, producer)
  /\ UNCHANGED << manager, unstable, acked, failed, log, pc, traffic >>

\* await consumer.stop() is over: stop() goes on to the next consumer, or
\* to the producer.
StopConsumer ==
  /\ LoopRunning
  /\ service.pc = "stop_consumer"
  /\ ~service.cancel
  /\ LET r == stop(service.index, consumers, producer)
     IN  /\ consumers' = r.consumers
         /\ producer' = r.producer
         /\ service' = [ service EXCEPT !.pc = r.pc, !.index = r.index ]
  /\ UNCHANGED << running, manager, unstable, acked, failed, log, pc, traffic >>

\* await self.producer.stop() is over: stop() and the coroutine return.
StopProducer ==
  /\ LoopRunning
  /\ service.pc = "stop_producer"
  /\ ~service.cancel
  /\ service' = [ service EXCEPT !.pc = "finished" ]
  /\ UNCHANGED << running, producer, consumers, manager, unstable, acked, failed, log,
                  pc, traffic >>

\* run_until_complete returns (or raises CancelledError) once kafka_task is
\* done; finally: self.loop.close().  Tasks still pending are never resumed.
ThreadExit ==
  /\ LoopRunning
  /\ service.pc = "finished"
  /\ manager' = [ manager EXCEPT !.loop = "closed", !.thread = "dead" ]
  /\ UNCHANGED << running, producer, consumers, service, unstable, acked, failed, log,
                  pc, traffic >>

\* A stop() that flips the running flag instead of clearing it.
ManagerStopToggles ==
  /\ log.stops < MaxStops
  /\ manager' = [ manager EXCEPT !.running = ~@ ]
  /\ log' = [ log EXCEPT !.stops = @ + 1 ]
  /\ UNCHANGED << running, producer, consumers, service, unstable, acked, failed, pc,
                  traffic >>

\* KafkaManager.stop(), called from another thread:
\*   self.running = False
\*   if self.kafka_task and not self.kafka_task.done():
\*       if self.loop and self.loop.is_running():
\*           self.loop.call_soon_threadsafe(self.kafka_task.cancel)
\*   if self.thread and self.thread.is_alive(): self.thread.join(timeout=5)
ManagerStop ==
  /\ log.stops < MaxStops
  /\ manager' = [ manager EXCEPT !.running = FALSE ]
  /\ service' = IF /\ manager.kafka_task = "pending"
                   /\ service.pc # "finished"
                   /\ manager.loop = "running"
                THEN [ service EXCEPT !.cancel = TRUE ]
                ELSE service
  /\ log' = [ log EXCEPT !.stops = @ + 1 ]
  /\ UNCHANGED << running, producer, consumers, unstable, acked, failed, pc, traffic >>

\* The service has been stopped, or was never started: nothing of it runs.
Stopped ==
  /\ manager.thread \in { "none", "dead" }
  /\ ~running
  /\ producer \in { "none", "stopped" }
  /\ \A t \in Topics : consumers[t] # "started"

\* KafkaService.stop() awaited on a service that is Stopped, start to end.
\* stop() of a closed consumer or producer returns at once.
ServiceStop ==
  /\ log.stops < MaxStops
  /\ Stopped
  /\ running' = FALSE
  /\ consumers' = [ t \in Topics |-> IF consumers[t] = "none" THEN "none" ELSE "stopped" ]
  /\ producer' = IF producer = "none" THEN "none" ELSE "stopped"
  /\ log' = [ log EXCEPT !.stops = @ + 1 ]
  /\ UNCHANGED << manager, service, unstable, acked, failed, pc, traffic >>

\* getmany returns an empty msg_pack (or raises asyncio.TimeoutError): the
\* while condition is evaluated again.  The log keeps the topic of the latest
\* empty poll seen while the service runs.
PollTimeout(t) ==
  /\ LoopRunning
  /\ t \in Observed
  /\ consumers[t] = "started"
  /\ pc[t] = "polling"
  /\ ~running \/ log.timed_out # {t}
  /\ pc' = [ pc EXCEPT ![t] = IF running THEN "polling" ELSE "ended" ]
  /\ log' = IF running THEN [ log EXCEPT !.timed_out = {t} ] ELSE log
  /\ UNCHANGED << running, producer, consumers, manager, service, unstable, acked,
                  failed, traffic >>

\* getmany raises a transport error (the connection to the broker is gone):
\* the except clause around the poll logs it and sleeps.
PollTransportError(t) ==
  /\ LoopRunning
  /\ t \in unstable
  /\ consumers[t] = "started"
  /\ pc[t] = "polling"
  /\ pc' = [ pc EXCEPT ![t] = "cooldown" ]
  /\ pollError' = [ pollError EXCEPT ![t] = "transport" ]
  /\ UNCHANGED << running, producer, consumers, manager, service, unstable, acked,
                  failed, log, partition, position, batch, cur, execQueue, store,
                  outbox, hist, web >>

\* getmany raises ConsumerStoppedError once consumer.stop() was called: the
\* same except clause logs it and sleeps.
PollStopped(t) ==
  /\ LoopRunning
  /\ t \in Observed
  /\ consumers[t] = "stopped"
  /\ pc[t] = "polling"
  /\ pc' = [ pc EXCEPT ![t] = "cooldown" ]
  /\ pollError' = [ pollError EXCEPT ![t] = "stopped" ]
  /\ UNCHANGED << running, producer, consumers, manager, service, unstable, acked,
                  failed, log, partition, position, batch, cur, execQueue, store,
                  outbox, hist, web >>

\* The messages a caller outside the consumer loops can hand to
\* send_response / send_audit_event.
DirectMessages ==
  UNION { { SuccessResponse(t, rid, NoResult), ErrorResponse(t, rid, "error") }
          : t \in Topics, rid \in { "req-9", "" } }
    \cup { AuditEvent(e, u) : e \in { "message_sent", "conversation_created" },
                              u \in Users }

\* send_response / send_audit_event awaited before the service has created
\* its producer.
DirectSend ==
  /\ log.direct < MaxDirectSends
  /\ producer = "none"
  /\ \E message \in DirectMessages :
       LET r == send_message(outbox, message, FALSE)
       IN  /\ outbox' = r.outbox
           /\ log' = [ log EXCEPT !.direct = @ + 1, !.direct_raised = r.raised ]
  /\ UNCHANGED << running, producer, consumers, manager, service, unstable, acked,
                  failed, pc, partition, position, pollError, batch, cur, execQueue,
                  store, hist, web >>

\* Start-up: the thread, the producer connection, the registration of the
\* consumers, and the consumer loops and handlers as they come up.
StartupNext ==
  \/ start_in_thread
  \/ run_kafka
  \/ start_kafka_service
  \/ StartProducer
  \/ ProducerRetry
  \/ StartConsumer
  \/ ConsumerRetry
  \/ StopProducer
  \/ ThreadExit
  \/ DirectSend
  \/ \E t \in Topics :
       \/ Poll(t)
       \/ PollTransportError(t)
       \/ Cooldown(t)
       \/ Dispatch(t)
       \/ StoreReturn(t)
       \/ SendSuccess(t)
       \/ SendAudit(t)
       \/ SendError(t)

StartupSpec == StartupInit /\ [][StartupNext]_vars

\* The service before shutdown: never started, or Running with a consumer
\* loop polling on every topic but those whose subscription was given up
\* (none, or every topic the broker is unstable for).
ShutdownInit ==
  /\ unstable \in { u \in SUBSET LifecycleTopics : Cardinality(u) <= MaxUnstable }
  /\ acked = {}
  /\ failed = {}
  /\ partition \in LifecycleScenarios
  /\ position = [ t \in Topics |-> 0 ]
  /\ pollError = [ t \in Topics |-> None ]
  /\ batch = [ t \in Topics |-> << >> ]
  /\ cur = [ t \in Topics |-> Idle ]
  /\ execQueue = << >>
  /\ store = InitialStore
  /\ outbox = << >>
  /\ hist = NoHistory
  /\ table = {}
  /\ creating = NoCreates
  /\ threads = NoThreads
  /\ \/ /\ running = FALSE
        /\ producer = "none"
        /\ consumers = [ t \in Topics |-> "none" ]
        /\ manager = NotStarted
        /\ service = NoCoroutine
        /\ log = NoLog
        /\ pc = [ t \in Topics |-> "unregistered" ]
     \/ \E exhausted \in { {}, unstable } :
          /\ running = TRUE
          /\ producer = "started"
          /\ consumers = [ t \in Topics |-> IF t \in exhausted THEN "none" ELSE "started" ]
          /\ manager = ManagerRunning
          /\ service = Supervising
          /\ log = [ NoLog EXCEPT !.producer_attempts = 1, !.exhausted = exhausted ]
          /\ pc = [ t \in Topics |-> IF t \in exhausted THEN "unregistered" ELSE "polling" ]

\* Shutdown: stop calls from outside, the cancellation and the finally clause
\* of start_kafka_service, and the consumer loops and handlers meanwhile.
ShutdownNext ==
  \/ ManagerStop
  \/ ServiceStop
  \/ Cancelled
  \/ StopConsumer
  \/ StopProducer
  \/ ThreadExit
  \/ \E t \in Topics :
       \/ Poll(t)
       \/ PollTimeout(t)
       \/ PollTransportError(t)
       \/ PollStopped(t)
       \/ Cooldown(t)
       \/ Dispatch(t)
       \/ StoreReturn(t)
       \/ SendSuccess(t)
       \/ SendAudit(t)
       \/ SendError(t)

ShutdownSpec == ShutdownInit /\ [][ShutdownNext]_vars

\* -------------------------------------------------- stop during start-up

\* start_in_thread has returned: the thread is started, run_kafka has not
\* yet executed its first statement.  No traffic: the consumer loops poll
\* empty partitions.
ThreadStarted == [ NotStarted EXCEPT !.thread = "alive" ]

StopDuringStartInit ==
  /\ running = FALSE
  /\ producer = "none"
  /\ consumers = [ t \in Topics |-> "none" ]
  /\ manager = ThreadStarted
  /\ service = NoCoroutine
  /\ unstable \in { u \in SUBSET LifecycleTopics : Cardinality(u) <= MaxUnstable }
  /\ acked = {}
  /\ failed = {}
  /\ log = NoLog
  /\ partition = [ t \in Topics |-> << >> ]
  /\ position = [ t \in Topics |-> 0 ]
  /\ pc = [ t \in Topics |-> "unregistered" ]
  /\ pollError = [ t \in Topics |-> None ]
  /\ batch = [ t \in Topics |-> << >> ]
  /\ cur = [ t \in Topics |-> Idle ]
  /\ execQueue = << >>
  /\ store = InitialStore
  /\ outbox = << >>
  /\ hist = NoHistory
  /\ table = {}
  /\ creating = NoCreates
  /\ threads = NoThreads

\* KafkaManager.stop() called from another thread at any point of the
\* start-up, the running service or its shutdown.
StopDuringStartNext ==
  \/ run_kafka
  \/ start_kafka_service
  \/ StartProducer
  \/ ProducerRetry
  \/ StartConsumer
  \/ ConsumerRetry
  \/ ManagerStop
  \/ Cancelled
  \/ StopConsumer
  \/ StopProducer
  \/ ThreadExit
  \/ \E t \in Topics :
       \/ PollTimeout(t)
       \/ PollStopped(t)
       \/ Cooldown(t)

StopDuringStartSpec == StopDuringStartInit /\ [][StopDuringStartNext]_vars

\* ----------------------------------------------------------------- broker

\* A message producer.send accepted is still in the producer's buffer.
Buffered == (1..Len(outbox)) \ (acked \cup failed)

\* The broker acknowledges a buffered message (acks='all'): the future that
\* producer.send returned - and nobody awaits - gets its result.
BrokerAck ==
  /\ \E j \in Buffered : acked' = acked \cup {j}
  /\ UNCHANGED << running, producer, consumers, manager, service, unstable, failed,
                  log, pc, traffic >>

\* The delivery of a buffered message fails (request timeout, broker gone):
\* the future that producer.send returned gets the exception.
DeliveryFails ==
  /\ \E j \in Buffered : failed' = failed \cup {j}
  /\ UNCHANGED << running, producer, consumers, manager, service, unstable, acked,
                  log, pc, traffic >>

DeliveryNext == Next \/ BrokerAck \/ DeliveryFails

DeliverySpec == Init /\ [][DeliveryNext]_vars

\* ---------------------------------------- entry points of the background service

\* What a thread started with target run_kafka leaves alone: the traffic,
\* the HTTP API, and the bookkeeping of the single-service scenarios.  The
\* broker is reachable: every connection attempt succeeds at once.
aside ==
  << service, unstable, acked, failed, log, pc, partition, position, pollError, batch,
     cur, execQueue, store, outbox, hist, table, creating >>

\* The thread a call of start_in_thread starts: the first one not yet used.
NextThread == CHOOSE i \in 1..MaxThreads :
                /\ threads[i].pc = "none"
                /\ \A j \in 1..(i - 1) : threads[j].pc # "none"

\* self.thread = threading.Thread(target=run_kafka, daemon=True); .start()
SpawnThread ==
  /\ threads' = [ threads EXCEPT ![NextThread].pc = "spawned" ]
  /\ manager' = [ manager EXCEPT !.thread = "alive" ]

\* ChatConfig.ready(), once, when Django has loaded the application (no
\* DISABLE_KAFKA, no skipped management command): start_in_thread().
ready ==
  /\ \A i \in 1..MaxThreads : threads[i].pc = "none"
  /\ SpawnThread
  /\ UNCHANGED << running, producer, consumers, aside >>

\* start_kafka(): if not kafka_manager.running: start_in_thread().  With the
\* flag up the call returns without a trace.
start_kafka ==
  /\ \E i \in 1..MaxThreads : threads[i].pc = "none"
  /\ threads[1].pc # "none"
  /\ ~manager.running
  /\ SpawnThread
  /\ UNCHANGED << running, producer, consumers, aside >>

\* run_kafka in thread i: self.loop = asyncio.new_event_loop();
\* self.running = True.
ThreadRunKafka(i) ==
  /\ threads[i].pc = "spawned"
  /\ threads' = [ threads EXCEPT ![i].pc = "loop" ]
  /\ manager' = [ manager EXCEPT !.loop = "created", !.running = TRUE ]
  /\ UNCHANGED << running, producer, consumers, aside >>

\* self.kafka_task = self.loop.create_task(...); run_until_complete: the
\* coroutine of thread i runs kafka_service.start() - self.running = True -
\* into start_producer, up to its await of self.producer.start().
ThreadStartService(i) ==
  /\ threads[i].pc = "loop"
  /\ threads' = [ threads EXCEPT ![i].pc = "producer_start" ]
  /\ manager' = [ manager EXCEPT !.loop = "running", !.kafka_task = "pending" ]
  /\ running' = TRUE
  /\ producer' = "created"
  /\ UNCHANGED << consumers, aside >>

\* await self.producer.start() of thread i returns: its publisher is
\* established, and the registration loop awaits the first consumer.start().
ThreadStartProducer(i) ==
  /\ threads[i].pc = "producer_start"
  /\ threads' = [ threads EXCEPT ![i].pc = "consumer_start", ![i].index = 1 ]
  /\ producer' = "started"
  /\ UNCHANGED << running, consumers, manager, aside >>

\* await consumer.start() of thread i returns: self.consumers[topic] is
\* (re)assigned and a _consume_messages task created on the thread's loop;
\* then the next topic, or `while self.running`.
ThreadStartConsumer(i) ==
  /\ threads[i].pc = "consumer_start"
  /\ consumers' = [ consumers EXCEPT ![TopicOrder[threads[i].index]] = "started" ]
  /\ threads' = [ threads EXCEPT
                    ![i].pc = IF threads[i].index < Len(TopicOrder) THEN "consumer_start"
                              ELSE "supervising",
                    ![i].index = @ + 1 ]
  /\ UNCHANGED << running, producer, manager, aside >>

\* The application as loaded, before ready().
EntryInit ==
  /\ running = FALSE
  /\ producer = "none"
  /\ consumers = [ t \in Topics |-> "none" ]
  /\ manager = NotStarted
  /\ service = NoCoroutine
  /\ unstable = {}
  /\ acked = {}
  /\ failed = {}
  /\ log = NoLog
  /\ partition = [ t \in Topics |-> << >> ]
  /\ position = [ t \in Topics |-> 0 ]
  /\ pc = [ t \in Topics |-> "unregistered" ]
  /\ pollError = [ t \in Topics |-> None ]
  /\ batch = [ t \in Topics |-> << >> ]
  /\ cur = [ t \in Topics |-> Idle ]
  /\ execQueue = << >>
  /\ store = InitialStore
  /\ outbox = << >>
  /\ hist = NoHistory
  /\ table = {}
  /\ creating = NoCreates
  /\ threads = NoThreads

EntryNext ==
  \/ ready
  \/ start_kafka
  \/ \E i \in 1..MaxThreads :
       \/ ThreadRunKafka(i)
       \/ ThreadStartService(i)
       \/ ThreadStartProducer(i)
       \/ ThreadStartConsumer(i)

EntrySpec == EntryInit /\ [][EntryNext]_vars

\* ------------------------------------------- HTTP API: per-user id sequence

\* An id computation that forgets the increment.
NextConversationIdNoIncrement(rows, user_sub) ==
  LET own == { c.conversation_id : c \in { r \in rows : r.sub = user_sub } }
  IN  IF own = {} THEN 1 ELSE CHOOSE x \in own : \A y \in own : y <= x

\* last_conversation = Conversation.objects.filter(sub=user_sub)
\*                         .order_by('-conversation_id').first()
\* next_conversation_id = 1 if not last_conversation
\*                        else last_conversation.conversation_id + 1
NextConversationId(rows, user_sub) ==
  LET own == { c.conversation_id : c \in { r \in rows : r.sub = user_sub } }
  IN  IF own = {} THEN 1 ELSE (CHOOSE x \in own : \A y \in own : y <= x) + 1

\* The INSERT of a Conversation row.  The model class the views import
\* (chat/models.py) is not among the sources; as the design notes have it,
\* the table has no unique constraint over (sub, conversation_id), so the
\* INSERT takes any row.
InsertConversation(rows, row) == rows \cup { row }

\* perform_create of request i, up to the query for the user's last
\* conversation: the view runs in its own request thread, outside any
\* transaction.  before: the creations that had been saved by then.
PerformCreateRead(i) ==
  /\ creating[i].pc = "idle"
  /\ \E user_sub \in Users :
       creating' = [ creating EXCEPT ![i] =
                       [ pc |-> "read", sub |-> user_sub,
                         next_conversation_id |-> NextConversationId(table, user_sub),
                         id |-> 0,
                         before |-> { k \in 1..MaxCreates : creating[k].pc = "saved" } ] ]
  /\ UNCHANGED << running, producer, consumers, manager, service, unstable, acked,
                  failed, log, partition, position, pc, pollError, batch, cur,
                  execQueue, store, outbox, hist, table, threads >>

\* serializer.save(sub=user_sub, org_id=..., conversation_id=next_conversation_id):
\* an INSERT; the primary key comes from the AutoField.
PerformCreateSave(i) ==
  /\ creating[i].pc = "read"
  /\ LET pk == Cardinality(table) + 1
     IN  /\ table' = InsertConversation(table,
                         [ id |-> pk, sub |-> creating[i].sub,
                           conversation_id |-> creating[i].next_conversation_id ])
         /\ creating' = [ creating EXCEPT ![i].pc = "saved", ![i].id = pk ]
  /\ UNCHANGED << running, producer, consumers, manager, service, unstable, acked,
                  failed, log, partition, position, pc, pollError, batch, cur,
                  execQueue, store, outbox, hist, threads >>

\* The HTTP API on an empty Conversation table, with no Kafka traffic.
CreateInit ==
  /\ running = TRUE
  /\ producer = "started"
  /\ consumers = [ t \in Topics |-> "started" ]
  /\ manager = ManagerRunning
  /\ service = Supervising
  /\ unstable = {}
  /\ acked = {}
  /\ failed = {}
  /\ log = [ NoLog EXCEPT !.producer_attempts = 1 ]
  /\ partition = [ t \in Topics |-> << >> ]
  /\ position = [ t \in Topics |-> 0 ]
  /\ pc = [ t \in Topics |-> "polling" ]
  /\ pollError = [ t \in Topics |-> None ]
  /\ batch = [ t \in Topics |-> << >> ]
  /\ cur = [ t \in Topics |-> Idle ]
  /\ execQueue = << >>
  /\ store = InitialStore
  /\ outbox = << >>
  /\ hist = NoHistory
  /\ table = {}
  /\ creating = NoCreates
  /\ threads = NoThreads

CreateNext ==
  \E i \in 1..MaxCreates :
    \/ PerformCreateRead(i)
    \/ PerformCreateSave(i)

CreateSpec == CreateInit /\ [][CreateNext]_vars


\* ==================================================================
\* Properties
\* ==================================================================

\* Every request the broker holds, with the topic it was delivered on.
Requests ==
  UNION { { [ t |-> t, m |-> partition[t][i] ] : i \in 1..Len(partition[t]) } : t \in Topics }

\* Outbox positions of the responses carrying request id rid.
ResponsesFor(rid) ==
  { j \in 1..Len(outbox) : outbox[j].topic = ResponsesTopic /\ outbox[j].request_id = rid }

\* Outbox positions of what was sent while handling request n.
SentFor(n) == { j \in 1..Len(outbox) : hist.sent[j] = n }

\* The request decodes and KafkaEvent accepts it with a non-empty request_id.
Answerable(r) ==
  /\ Decodable(r.m)
  /\ KafkaEventValid(r.m.value)
  /\ r.m.value.request_id # ""

\* Handle one step of the handler call in progress on topic t.
HandlerStep(t) ==
  Dispatch(t) \/ StoreReturn(t) \/ SendSuccess(t) \/ SendAudit(t) \/ SendError(t)

\* C1: every request that decodes and carries a request_id and a known
\* operation gets exactly one response with its request_id, on the success
\* and on the failure path, also when a step after the success response
\* (the audit event) fails.  Stated for requests whose handler has returned
\* and whose response sends the producer did not refuse.
C1_ExactlyOneResponse ==
  \A r \in Requests :
    ( /\ Answerable(r)
      /\ r.m.n \in hist.done
      /\ r.m.n \notin hist.response_refused \cup hist.escaped )
    => Cardinality(ResponsesFor(r.m.value.request_id)) = 1

\* C2: when the send of the audit event raises after the success response
\* was published, no status=error response is published for that request.
C2_AuditFailureNotPropagated ==
  \A r \in Requests :
    r.m.n \in hist.audit_refused
    => \A j \in ResponsesFor(r.m.value.request_id) : outbox[j].status = "success"

\* The required input fields of the request each topic carries: user_context
\* with its email for every operation, plus the operation's own fields.
LacksRequiredField(t, p) ==
  \/ p.user_context = Absent
  \/ p.email = Absent
  \/ \E f \in OperationFields(t) : p[f] = Absent

\* C3: a request whose payload lacks a required field is answered with
\* status=error and the Domain Store is not called for it, for each of the
\* ten handlers.  (Stated for requests whose error send was not refused.)
C3_MissingFieldIsErrorWithoutStore ==
  \A r \in Requests :
    ( /\ Answerable(r)
      /\ LacksRequiredField(r.t, r.m.value.payload)
      /\ r.m.n \in hist.done
      /\ r.m.n \notin hist.escaped )
    => /\ r.m.n \notin hist.store_called
       /\ ResponsesFor(r.m.value.request_id) # {}
       /\ \A j \in ResponsesFor(r.m.value.request_id) : outbox[j].status = "error"

\* The error response C4 asks for: status=error, a non-empty error string,
\* the request's request_id and the handler's response tag.
HasErrorResponse(r) ==
  \E j \in ResponsesFor(r.m.value.request_id) :
    /\ outbox[j].status = "error"
    /\ outbox[j].error \notin { None, "" }
    /\ outbox[j].operation = consumers_config[r.t].tag

\* C4 as claimed: whenever an exception is raised in a handler after the
\* envelope was parsed, the handler publishes an error response with the
\* request's request_id and the handler's response tag.
C4_ExceptionPublishesError ==
  \A r \in Requests :
    ( /\ KafkaEventValid(r.m.value)
      /\ r.m.n \in hist.raised
      /\ r.m.n \in hist.done )
    => HasErrorResponse(r)

\* C4 amended: ... provided the request_id is a non-empty string and the
\* producer accepts the send of the error response.
C4_ExceptionPublishesErrorIfSendable ==
  \A r \in Requests :
    ( /\ KafkaEventValid(r.m.value)
      /\ r.m.value.request_id # ""
      /\ r.m.n \in hist.raised
      /\ r.m.n \in hist.done
      /\ r.m.n \notin hist.escaped )
    => HasErrorResponse(r)

\* A handler whose store call found nothing has returned after publishing
\* its error response.
C4_Witness ==
  \E r \in Requests :
    /\ r.m.n \in hist.raised \cap hist.done \cap hist.store_called
    /\ \E j \in ResponsesFor(r.m.value.request_id) :
         outbox[j].error = "Internal error: not found or access denied"

\* Bytes that are not a JSON text once at most one leading BOM is removed.
Malformed(raw) == raw.bytes \notin { <<"JSON">>, <<"BOM", "JSON">> }

\* C5: for a message whose bytes cannot be decoded, no handler is invoked
\* and nothing - response or audit event - is published.
C5_MalformedIsDropped ==
  \A r \in Requests :
    Malformed(r.m) => /\ r.m.n \notin hist.invoked
                      /\ SentFor(r.m.n) = {}
                      /\ ResponsesFor(RequestId(r.m.n)) = {}

\* A poll has fetched a malformed message and failed on it.
C5_Witness ==
  \E t \in Topics :
    /\ pollError[t] = "decode"
    /\ \E i \in 1..Len(partition[t]) : Malformed(partition[t][i])

\* C6: a message that fails to decode is dropped on its own: the loop goes
\* on to the next message and does not enter the transport-error cooldown
\* because of it.
C6_DecodeFailureNoCooldown ==
  \A t \in Topics : pollError[t] = "decode" => pc[t] # "cooldown"

\* The audit event each operation owes on success ("none": a list operation).
AuditBySpec(t) ==
  CASE t = "chat-service-send-message" -> "message_sent"
    [] t = "chat-service-create-conversation" -> "conversation_created"
    [] t = "chat-service-delete-conversation" -> "conversation_deleted"
    [] t = "chat-service-upload-document" -> "document_uploaded"
    [] t = "chat-service-create-prompt" -> "prompt_created"
    [] t = "chat-service-delete-prompt" -> "prompt_deleted"
    [] t = "chat-service-generate-title" -> "title_generated"
    [] OTHER -> "none"

\* C7: a handler that returns without having raised has published exactly
\* one audit event of its operation's type, after its success response, if
\* the operation is audit-significant, and none if it is a list operation.
C7_OneAuditEventOnSuccess ==
  \A r \in Requests :
    ( r.m.n \in hist.done /\ r.m.n \in hist.payload_ok /\ r.m.n \notin hist.raised )
    => LET audits == { j \in SentFor(r.m.n) : outbox[j].topic = EventsTopic }
       IN  IF AuditBySpec(r.t) = "none"
           THEN audits = {}
           ELSE /\ Cardinality(audits) = 1
                /\ \A j \in audits :
                     /\ outbox[j].event_type = AuditBySpec(r.t)
                     /\ \E k \in SentFor(r.m.n) :
                          k < j /\ outbox[k].topic = ResponsesTopic
                                /\ outbox[k].status = "success"

\* C8: every published response has status=error exactly when error is set
\* and payload is unset, and a success response has no error.
C8_ResponseEnvelopeInvariant ==
  \A j \in 1..Len(outbox) :
    outbox[j].topic = ResponsesTopic
    => /\ outbox[j].status = "error"
            <=> (outbox[j].error # None /\ ~outbox[j].payload.set)
       /\ outbox[j].status = "success" => outbox[j].error = None

\* Both kinds of response have been published.
C8_Witness ==
  /\ \E j \in 1..Len(outbox) :
       outbox[j].topic = ResponsesTopic /\ outbox[j].status = "error"
  /\ \E j \in 1..Len(outbox) :
       outbox[j].topic = ResponsesTopic /\ outbox[j].status = "success"

\* C9: while the handler on topic a is blocked in its store call, the
\* handler of a request delivered on another topic b - whether or not it
\* calls the store itself - can take every step up to publishing its
\* response without a's call returning.
C9_NoCrossTopicBlocking ==
  \A a, b \in Topics :
    ( /\ a # b
      /\ pc[a] = "await_store"
      /\ Head(execQueue) = a
      /\ pc[b] \in { "dispatching", "await_store", "send_success", "send_audit",
                     "send_error" } )
    => ENABLED HandlerStep(b)

\* C10: while the first handler on a topic is blocked in its store call, the
\* handling of a second request already fetched from the same topic can start.
C10_SameTopicNotSerialized ==
  \A t \in Topics :
    ( pc[t] = "await_store" /\ Len(batch[t]) > 1 )
    => ENABLED Dispatch(t)

\* The caller of a request may touch conversation c under the access rule:
\* c.user_sub is the caller's email and, when active_org_id is given, c.org_id
\* is that organisation.
MayTouch(r, c) ==
  /\ r.m.value.payload.conversation_id = c.id
  /\ c.user_sub = UserId(r.m.value.payload)
  /\ (OrgId(r.m.value.payload) # None => c.org_id = OrgId(r.m.value.payload))

\* The requests of topic t whose store call has run.
StoreCalled(t) == { r \in Requests : r.t = t /\ r.m.n \in hist.store_called }

\* C18: the handlers that read or mutate a conversation enforce one access
\* rule: a conversation is deleted, renamed or has its messages listed only
\* for a request of its owner and, when the request names an active_org_id,
\* of its organisation; a generate-title request with an active_org_id never
\* renames a conversation of another organisation.
C18_AccessRuleEnforcedIdentically ==
  \A c \in InitialStore.conversations :
    /\ (\A d \in store.conversations : d.id # c.id)
         => \E r \in StoreCalled("chat-service-delete-conversation") : MayTouch(r, c)
    /\ (\E d \in store.conversations : d.id = c.id /\ d.topic # c.topic)
         => \E r \in StoreCalled("chat-service-generate-title") : MayTouch(r, c)
    /\ \A j \in 1..Len(outbox) :
         ( /\ outbox[j].topic = ResponsesTopic
           /\ outbox[j].operation = "chat_get_messages_response"
           /\ \E m \in InitialStore.messages :
                m.conversation = c.id /\ m.id \in outbox[j].payload.items )
         => \E r \in StoreCalled("chat-service-get-messages") : MayTouch(r, c)

\* The conversation a list-messages request names exists and belongs to a
\* user other than the caller.
OwnedByAnother(r) ==
  \E c \in InitialStore.conversations \cup store.conversations :
    /\ c.id = r.m.value.payload.conversation_id
    /\ c.user_sub # UserId(r.m.value.payload)

LaterDelete(r) ==
  /\ r.t = "chat-service-delete-conversation"
  /\ Answerable(r)
  /\ \E f \in Requests :
       /\ f.t = r.t
       /\ f.m.n < r.m.n
       /\ Answerable(f)
       /\ f.m.value.payload.conversation_id = r.m.value.payload.conversation_id
       /\ UserId(f.m.value.payload) = UserId(r.m.value.payload)
       /\ \E j \in SentFor(f.m.n) :
            outbox[j].topic = ResponsesTopic /\ outbox[j].status = "success"

Registering == service.pc \in { "consumer_start", "consumer_sleep", "supervising" }

\* Topic t has been through its registration.
Registered(t) ==
  \/ service.pc = "supervising"
  \/ /\ service.pc \in { "consumer_start", "consumer_sleep" }
     /\ \E k \in 1..(service.index - 1) : TopicOrder[k] = t

\* C11: a topic whose subscription fails all five attempts is skipped and
\* nothing else is: registration goes on, every other topic has its consumer
\* started and its Consumer Loop running, and the service is Running
\* (KafkaService.running, producer started, the coroutine supervising) once
\* the last topic has been tried.
C11_ExhaustedTopicAloneIsSkipped ==
  /\ producer = "started" => Registering
  /\ \A t \in Topics :
       Registered(t) =>
         IF t \in log.exhausted
         THEN consumers[t] = "none" /\ pc[t] = "unregistered"
         ELSE consumers[t] = "started" /\ pc[t] \notin { "unregistered", "ended" }
  /\ service.pc = "supervising" => running /\ manager.running
  /\ (service.pc = "consumer_start" /\ service.attempt > 0)
       => TopicOrder[service.index] \notin log.exhausted

\* One topic was given up, the service is Running all the same, and the
\* request on another topic has been answered.
C11_Witness ==
  /\ service.pc = "supervising"
  /\ running
  /\ log.exhausted # {}
  /\ \E j \in 1..Len(outbox) :
       outbox[j].topic = ResponsesTopic /\ outbox[j].status = "success"

\* C12: the producer connection is attempted at most ten times, with a
\* sleep between consecutive attempts and none after the last; when all ten
\* fail no Consumer Loop is started for any topic and the service ends
\* stopped: KafkaService.running false and no producer.
C12_ProducerExhaustionAbortsStart ==
  /\ log.producer_attempts <= producer_max_retries
  /\ log.producer_attempts > 0
       => log.producer_sleeps =
            log.producer_attempts - (IF service.pc = "producer_sleep" THEN 0 ELSE 1)
  /\ service.pc \in { "stop_producer", "finished" }
       => /\ log.producer_attempts = producer_max_retries
          /\ \A t \in Topics : consumers[t] = "none" /\ pc[t] = "unregistered"
          /\ ~running
  /\ service.pc = "finished" => producer = "none"

\* C13: send_message returns only after the broker has acknowledged the
\* write: whatever a handler that has returned sent is acknowledged - not
\* still in the producer's buffer, and not lost.
C13_SendReturnsAfterAck ==
  \A r \in Requests :
    r.m.n \in hist.done => \A j \in SentFor(r.m.n) : j \in acked

\* C14: while KafkaService.producer is None, send_response and
\* send_audit_event publish nothing, raise nothing and change nothing of the
\* service, whatever they are given to send.
C14_NoProducerSendIsNoOp ==
  [][ (producer = "none" /\ log'.direct # log.direct)
        => /\ outbox' = outbox
           /\ ~log'.direct_raised
           /\ UNCHANGED << running, producer, consumers, manager, service, acked,
                           failed, pc, store, hist >>
    ]_vars

\* A publish call was made while the producer was None, and it still is.
C14_Witness == producer = "none" /\ log.direct > 0 /\ outbox = << >>

\* The places a Consumer Loop is at inside its polling/dispatching cycle.
InCycle ==
  { "polling", "cooldown", "dispatching", "await_store", "send_success", "send_audit",
    "send_error" }

\* C15: a Consumer Loop leaves its cycle only once KafkaService.running is
\* False; an empty poll or a timeout leaves it polling, and after an
\* exception of the poll it sleeps and polls again.  The event loop is not
\* closed under a loop while the service is running.
C15_LoopEndsOnlyAfterShutdown ==
  [][ /\ \A t \in Topics :
          /\ (pc[t] \in InCycle /\ running') => pc'[t] \in InCycle
          /\ (pc[t] = "cooldown" /\ pc'[t] # "cooldown" /\ running') => pc'[t] = "polling"
          /\ (pc'[t] = "ended") => ~running'
      /\ manager'.loop = "closed" => ~running'
    ]_vars

\* A loop that has seen an empty poll is sleeping after a transport error
\* while the service is running.
C15_Witness ==
  \E t \in Topics :
    /\ running
    /\ t \in log.timed_out
    /\ pc[t] = "cooldown"
    /\ pollError[t] = "transport"

\* C16: a stop call - KafkaManager.stop() or KafkaService.stop() - on a
\* service that is Stopped, because it was never started or was stopped
\* before, raises nothing and changes nothing.
C16_StopIsIdempotent ==
  [][ (Stopped /\ log'.stops # log.stops)
        => UNCHANGED << running, producer, consumers, manager, service, unstable,
                        acked, failed, pc, traffic >>
    ]_vars

\* The service was stopped, its thread is gone, and stop was called again.
C16_Witness == Stopped /\ manager.thread = "dead" /\ log.stops = MaxStops

\* The places a handler call is at between its start and its return.
InFlight == { "await_store", "send_success", "send_audit", "send_error" }

\* C17: shutdown lets the handler calls in flight finish: the producer is
\* not stopped and the event loop is not closed while a handler call of some
\* Consumer Loop is still executing.
C17_InFlightHandlersComplete ==
  (producer = "stopped" \/ manager.loop = "closed")
    => \A t \in Topics : pc[t] \notin InFlight

\* The messages of topic t that a poll has delivered to the loop and whose
\* handler has not been started yet, by their place in the partition.
Waiting(t) ==
  { batch[t][k] : k \in { x \in 1..Len(batch[t]) : x > 1 \/ pc[t] = "dispatching" } }

\* C21: within one topic the handlers are started in the order the broker
\* delivered the messages: while a delivered message waits for its handler,
\* no handler of a message behind it in the partition has been started, the
\* messages of a batch wait in partition order, and the handler call in
\* progress is that of the first of them - whatever the other topics do.
C21_HandlersStartInDeliveryOrder ==
  \A t \in Topics :
    /\ \A i \in Waiting(t) :
         /\ partition[t][i].n \notin hist.invoked
         /\ \A j \in (i + 1)..Len(partition[t]) : partition[t][j].n \notin hist.invoked
    /\ \A k \in 1..(Len(batch[t]) - 1) : batch[t][k] < batch[t][k + 1]
    /\ pc[t] \in InFlight => cur[t].n = partition[t][Head(batch[t])].n

\* Two messages of one topic were delivered, in one batch or in two: the
\* handler of the first has returned and that of the second is in progress.
C21_Witness ==
  \E t \in Topics :
    /\ Len(partition[t]) > 1
    /\ position[t] = 2
    /\ partition[t][1].n \in hist.done
    /\ pc[t] \in InFlight
    /\ cur[t].n = partition[t][2].n

\* C22 as claimed: no exception raised while a handler processes a message
\* leaves the handler, the exception of the except block's own send included.
C22_NothingEscapesHandler == hist.escaped = {}

\* C22 amended: an exception raised in a handler's try block is caught by
\* the handler's except block; an exception raised in that except block by
\* the send of the error response leaves the handler and is caught by the
\* Consumer Loop, which goes on with the next message or the next poll.  No
\* exception of a handler ends a Consumer Loop.
C22_HandlerExceptionsNeverEndLoop ==
  [][ \A r \in Requests :
        /\ (r.m.n \in hist'.raised \ hist.raised /\ KafkaEventValid(r.m.value))
             => /\ pc'[r.t] = "send_error"
                /\ cur'[r.t].n = r.m.n
                /\ r.m.n \notin hist'.escaped
        /\ (r.m.n \in hist'.raised \ hist.raised /\ ~KafkaEventValid(r.m.value))
             => /\ pc'[r.t] \in { "polling", "dispatching" }
                /\ r.m.n \notin hist'.escaped
        /\ (r.m.n \in hist'.escaped \ hist.escaped)
             => /\ pc[r.t] = "send_error"
                /\ cur[r.t].n = r.m.n
                /\ pc'[r.t] \in { "polling", "dispatching" }
                /\ batch'[r.t] = Tail(batch[r.t])
                /\ outbox' = outbox
        /\ pc'[r.t] # "ended"
    ]_vars

\* The send of an error response raised in the except block of the first of
\* two requests, and the handler of the second has been started.
C22_Witness ==
  \E r \in Requests :
    /\ r.m.n \in hist.escaped
    /\ \E q \in Requests : q.t = r.t /\ q.m.n > r.m.n /\ q.m.n \in hist.invoked

\* Outbox positions of the responses (not audit events) sent for request n.
ResponsesSentFor(n) == { j \in SentFor(n) : outbox[j].operation \in ResponseOps }

\* C23 as claimed: every response is published to chat-service-responses,
\* carries the request_id of the request it answers and has that request_id
\* as its routing key.
C23_ResponseKeyedByRequestId ==
  \A r \in Requests :
    \A j \in ResponsesSentFor(r.m.n) :
      /\ outbox[j].topic = ResponsesTopic
      /\ outbox[j].request_id = r.m.value.request_id
      /\ outbox[j].msg_key = r.m.value.request_id

\* C23 amended: ... has that request_id as its routing key when it is not
\* empty, and no key when it is; the success response and the error
\* response of one request carry the same key.
C23_ResponseKeyedByNonEmptyRequestId ==
  \A r \in Requests :
    /\ \A j \in ResponsesSentFor(r.m.n) :
         /\ outbox[j].topic = ResponsesTopic
         /\ outbox[j].request_id = r.m.value.request_id
         /\ outbox[j].msg_key =
              (IF r.m.value.request_id # "" THEN r.m.value.request_id ELSE None)
    /\ \A j, k \in ResponsesSentFor(r.m.n) : outbox[j].msg_key = outbox[k].msg_key
    /\ \A j \in ResponsesFor(r.m.value.request_id) : j \in ResponsesSentFor(r.m.n)

\* One request has a success response and an error response in the outbox.
C23_Witness ==
  \E r \in Requests :
    \E j, k \in ResponsesSentFor(r.m.n) :
      /\ outbox[j].status = "success"
      /\ outbox[k].status = "error"
      /\ outbox[j].msg_key = r.m.value.request_id

\* The response counterpart of a request operation tag.
ResponseTag(operation) == operation \o "_response"

\* C24: dispatch is by operation tag: whatever topic an envelope arrived on,
\* the handler that processes it is the one of the envelope's operation, and
\* the responses published for it carry that operation's response tag.
C24_DispatchByOperationTag ==
  \A r \in Requests :
    (Decodable(r.m) /\ KafkaEventValid(r.m.value))
    => /\ r.m.n \in hist.payload_ok \cup hist.store_called
            => consumers_config[r.t].op = r.m.value.operation
       /\ \A j \in ResponsesSentFor(r.m.n) :
            outbox[j].operation = ResponseTag(r.m.value.operation)

\* The perform_create call that saved row c.
Creator(c) == CHOOSE i \in 1..MaxCreates : creating[i].pc = "saved" /\ creating[i].id = c.id

\* C25: the per-user id is the user's last id plus one, read and then
\* inserted with nothing to serialize the two: creations of one user of which
\* one was saved before the other read get distinct (increasing) ids, and two
\* rows of one user share a conversation_id only if neither creation was
\* saved before the other read - which the witness shows does happen.
C25_SequentialCreationsGetDistinctIds ==
  /\ \A a, b \in 1..MaxCreates :
       ( /\ creating[b].pc # "idle"
         /\ a \in creating[b].before
         /\ creating[a].sub = creating[b].sub )
       => creating[a].next_conversation_id < creating[b].next_conversation_id
  /\ \A c, d \in table :
       (c.id # d.id /\ c.sub = d.sub /\ c.conversation_id = d.conversation_id)
       => /\ Creator(c) \notin creating[Creator(d)].before
          /\ Creator(d) \notin creating[Creator(c)].before
  /\ \A i \in 1..MaxCreates :
       creating[i].pc = "saved"
       => \E c \in table : /\ c.id = creating[i].id
                            /\ c.sub = creating[i].sub
                            /\ c.conversation_id = creating[i].next_conversation_id

\* Two creations of one user have read the same last id and stored two
\* conversations with the same (sub, conversation_id), and a third, made
\* after them, has the next id.
C25_Witness ==
  \E c, d, e \in table :
    /\ c.id # d.id
    /\ c.sub = d.sub /\ c.sub = e.sub
    /\ c.conversation_id = d.conversation_id
    /\ e.conversation_id = c.conversation_id + 1
    /\ { Creator(c), Creator(d) } \subseteq creating[Creator(e)].before

\* C26: KafkaManager.running - what is_kafka_running() returns and the guard
\* of start_kafka() reads - is true only while the service task is alive:
\* once start_kafka_service has ended, it is false.
C26_ManagerRunningOnlyWhileTaskAlive ==
  service.pc = "finished" => ~manager.running

\* C29: KafkaService.running - what the health and status endpoints report
\* as "running" - implies that the producer is connected; it is not true
\* while start_producer is still retrying.
C29_RunningImpliesProducerStarted ==
  running => producer = "started"

\* C28: a stop is never lost.  Once KafkaManager.stop() has been called
\* after start_in_thread(), the service is not Running unless its end is
\* under way: the task is being cancelled, or the manager's flag is down for
\* the supervising loop to see.
C28_StopIsNeverLost ==
  log.stops > 0 /\ service.pc = "supervising" => service.cancel \/ ~manager.running

\* The topics thread i has registered a consumer for, once its own
\* publisher is established.
RegisteredBy(i) ==
  IF threads[i].pc \notin { "consumer_start", "supervising" } THEN {}
  ELSE { TopicOrder[k] : k \in 1..(threads[i].index - 1) }

\* C27: at most one background service instance.  Whatever the interleaving
\* of ready() and start_kafka() calls, no two threads both establish a
\* publisher and register a consumer for the same topic.
C27_AtMostOneServiceInstance ==
  \A i, j \in 1..MaxThreads : i # j => RegisteredBy(i) \cap RegisteredBy(j) = {}

\* A JSON object that lacks one of the envelope's fields, or names an
\* operation that is no member of EventType.
FailsEnvelopeValidation(e) ==
  /\ e.is_dict
  /\ \/ e.message_id = Absent
     \/ e.request_id = Absent
     \/ e.operation = Absent
     \/ e.timestamp = Absent
     \/ ~e.payload.is_dict
     \/ e.operation \notin EventType

\* C30: an envelope that decodes but fails envelope-level validation is
\* dropped: no response and no audit event is sent for it, its payload is
\* never validated, no Domain Store call is made, and the handler returns in
\* the step it was invoked in, without an exception leaving it - also when
\* the envelope carries a request_id.
C30_InvalidEnvelopeIsDropped ==
  \A t \in Topics : \A k \in 1..Len(partition[t]) :
    LET m == partition[t][k]
    IN  FailsEnvelopeValidation(m.value) =>
          /\ SentFor(m.n) = {}
          /\ m.n \notin hist.payload_ok \cup hist.store_called \cup hist.escaped
                          \cup hist.response_refused \cup hist.audit_refused
          /\ m.n \in hist.invoked => m.n \in hist.done
          /\ ~(pc[t] \in InFlight /\ cur[t].n = m.n)

\* An envelope with a request_id and an unknown operation has been handled
\* and dropped, and the next request of its topic has been answered.
C30_Witness ==
  \E t \in Topics : \E k \in 1..Len(partition[t]) :
    LET m == partition[t][k]
    IN  /\ m.bytes = <<"JSON">>
        /\ m.value.request_id = RequestId(m.n)
        /\ m.value.operation = "chat_unknown"
        /\ m.n \in hist.done
        /\ k < Len(partition[t])
        /\ SentFor(partition[t][k + 1].n) # {}

====
